---------------------------- MODULE Spec2Model ----------------------------
(***************************************************************************)
(* Model of the Bounce demo (src/src/main.rs): the per-frame dispatch of   *)
(* MovementSystem, BounceSystem and the sprite-sheet Processor, followed   *)
(* by the thread-local RenderingSystem driving ExampleGraph (rebuild /     *)
(* builder).                                                               *)
(*                                                                         *)
(* Numbers: f32 coordinates, velocities and delta_seconds are modelled as  *)
(* integers (exact arithmetic on a grid); rounding is not modelled.        *)
(***************************************************************************)
EXTENDS Integers, Sequences, FiniteSets

(* ------------------------------ bounds -------------------------------- *)

\* Number of frames the model runs (the program runs until the window closes).
MaxFrames == 3

\* Number of balls in the model (the program spawns 50_000, main.rs:186).
NumBodies == 2

(* ------------------------- program constants -------------------------- *)

ARENA_WIDTH == 1000

ARENA_HEIGHT == 1000

\* `let range = 50.0;` in on_start.
range == 50

(* ------------------------------ inputs -------------------------------- *)

Bodies == 1..NumBodies

\* Variant: the upper end of the draw is 2 * range.
VelocitySamplesWide ==
    { [x |-> -range, y |-> -range], [x |-> 2 * range - 1, y |-> -range],
      [x |-> -range, y |-> range - 1] }

\* Velocities on_start can draw for a ball: both components come from
\* rng.gen_range(-range, range), the half-open [-range, range).
VelocitySamples ==
    { [x |-> -range, y |-> -range], [x |-> range - 1, y |-> -range],
      [x |-> -range, y |-> range - 1] }

\* Values Time::delta_seconds() can return (>= 0).
DeltaSamples == {0, 20}

\* Option<ScreenDimensions>: None is <<>>, Some(d) is <<d>>.
None == <<>>

Some(d) == <<d>>

SizeA == [width |-> 800, height |-> 600]

SizeB == [width |-> 1024, height |-> 768]

\* What res.try_fetch::<ScreenDimensions>() can return on a frame.
ScreenSamples == {None, Some(SizeA), Some(SizeB)}

(* ------------------------------- state -------------------------------- *)

VARIABLES
    transforms,     \* Transform storage: body -> [x, y] (translation)
    velocities,     \* Velocity storage: body -> [x, y]
    delta_seconds,  \* Time resource: delta of the current frame
    screen,         \* ScreenDimensions resource as try_fetch sees it this frame
    dimensions,     \* ExampleGraph.dimensions
    dirty,          \* ExampleGraph.dirty
    window_kind,    \* size the render graph was last built with (<<>>: not built)
    status,         \* system name -> "waiting" | "running" | "finished"
    cursor,         \* join position of MovementSystem / BounceSystem
    rstep,          \* RenderingSystem position: "rebuild" | "builder" | "draw"
    panicked,       \* the process aborted on a panic
    frame,          \* number of the current frame, from 1
    start,          \* history: storages and graph state at the start of the frame
    bounceIn,       \* history: storages when BounceSystem began its pass
    corrected,      \* history: bodies the latest BounceSystem visit changed
    seen,           \* history: the screen observations of the frames so far
    rebuildAt       \* history: frames on which rebuild returned true

vars == <<transforms, velocities, delta_seconds, screen, dimensions, dirty,
          window_kind, status, cursor, rstep, panicked, frame, start, bounceIn,
          corrected, seen, rebuildAt>>

(* ----------------------------- scheduler ------------------------------ *)

\* Variant: the two builder.add lines for movement and bounce swapped.
RegisteredBounceFirst ==
    <<"bounce_system", "movement_system", "sprite_sheet_processor",
      "rendering_system">>

\* Registration order: BounceBundle::build adds the three dispatcher systems
\* in this order; main then adds RenderingSystem.
Registered ==
    <<"movement_system", "bounce_system", "sprite_sheet_processor",
      "rendering_system">>

Systems == {Registered[k] : k \in 1..Len(Registered)}

Index(s) == CHOOSE k \in 1..Len(Registered) : Registered[k] = s

\* Variant: RenderingSystem added with .with(..., &[]) like the other systems
\* (its SystemData is empty, so it conflicts with nothing).
NoThreadLocal == {}

\* main: .with_thread_local(RenderingSystem::new(ExampleGraph::default())).
ThreadLocal == {"rendering_system"}

\* Resources a system's SystemData borrows mutably.
Writes(s) ==
    CASE s = "movement_system" -> {"Transform"}
      [] s = "bounce_system" -> {"Velocity", "Transform"}
      [] s = "sprite_sheet_processor" -> {"AssetStorage<SpriteSheet>"}
      [] OTHER -> {}

\* Resources a system's SystemData borrows shared.
Reads(s) ==
    CASE s = "movement_system" -> {"Velocity", "Time"}
      [] s = "sprite_sheet_processor" -> {"Time"}
      [] OTHER -> {}

Conflict(s, t) ==
    \/ Writes(s) \cap (Reads(t) \cup Writes(t)) # {}
    \/ Writes(t) \cap (Reads(s) \cup Writes(s)) # {}

\* The dispatcher built from the registrations (no explicit dependencies, &[]):
\* a system runs after every system registered before it whose resources
\* conflict with its own; systems without conflict may run in parallel; a
\* thread-local system runs on the main thread after all dispatcher systems
\* and after the thread-local systems registered before it.
CanStart(s) ==
    IF s \in ThreadLocal
    THEN \A t \in Systems \ {s} :
            (t \notin ThreadLocal \/ Index(t) < Index(s)) => status[t] = "finished"
    ELSE \A t \in Systems \ ThreadLocal :
            (Index(t) < Index(s) /\ Conflict(s, t)) => status[t] = "finished"

(* --------------------------- pure functions --------------------------- *)

\* Variant: the y translation uses velocity.x.
IntegrateBodyWrongAxis(t, v, dt) ==
    [x |-> t.x + v.x * dt, y |-> t.y + v.x * dt]

\* MovementSystem::run, loop body: prepend_translation_x / _y.
IntegrateBody(t, v, dt) ==
    [x |-> t.x + v.x * dt, y |-> t.y + v.y * dt]

\* Variant: strict comparison at the upper bound.
UpperHitStrict(c, extent) == c > extent

\* `current >= Float::from(ARENA_...)`.
UpperHit(c, extent) == c >= extent

\* Variant: strict comparison at the lower bound.
LowerHitStrict(c) == c < 0

\* `current <= Float::from(0.0)`.
LowerHit(c) == c <= 0

\* Variant: a reflection also halves the speed.
BounceBodyDamped(t, v) ==
    LET vy == IF t.y >= ARENA_HEIGHT \/ t.y <= 0 THEN -(v.y \div 2) ELSE v.y
        vx == IF t.x >= ARENA_WIDTH \/ t.x <= 0 THEN -(v.x \div 2) ELSE v.x
        ty == IF t.y >= ARENA_HEIGHT THEN ARENA_HEIGHT - 1
              ELSE IF t.y <= 0 THEN 0 ELSE t.y
        tx == IF t.x >= ARENA_WIDTH THEN ARENA_WIDTH - 1
              ELSE IF t.x <= 0 THEN 0 ELSE t.x
    IN  [t |-> [x |-> tx, y |-> ty], v |-> [x |-> vx, y |-> vy]]

\* Variant: the velocity is negated but the position is not clamped.
BounceBodyNoClamp(t, v) ==
    LET vy == IF t.y >= ARENA_HEIGHT \/ t.y <= 0 THEN -v.y ELSE v.y
        vx == IF t.x >= ARENA_WIDTH \/ t.x <= 0 THEN -v.x ELSE v.x
    IN  [t |-> t, v |-> [x |-> vx, y |-> vy]]

\* Variant: the x checks sit in the else branch of the y checks.
BounceBodyElseChain(t, v) ==
    IF t.y >= ARENA_HEIGHT
    THEN [t |-> [t EXCEPT !.y = ARENA_HEIGHT - 1], v |-> [v EXCEPT !.y = -v.y]]
    ELSE IF t.y <= 0
    THEN [t |-> [t EXCEPT !.y = 0], v |-> [v EXCEPT !.y = -v.y]]
    ELSE IF t.x >= ARENA_WIDTH
    THEN [t |-> [t EXCEPT !.x = ARENA_WIDTH - 1], v |-> [v EXCEPT !.x = -v.x]]
    ELSE IF t.x <= 0
    THEN [t |-> [t EXCEPT !.x = 0], v |-> [v EXCEPT !.x = -v.x]]
    ELSE [t |-> t, v |-> v]

\* BounceSystem::run, loop body: the four ifs in source order; current_y and
\* current_x are read once, before any write.
BounceBody(t, v) ==
    LET current_y == t.y
        current_x == t.x
        s0 == [t |-> t, v |-> v]
        s1 == IF UpperHit(current_y, ARENA_HEIGHT)
              THEN [t |-> [s0.t EXCEPT !.y = ARENA_HEIGHT - 1],
                    v |-> [s0.v EXCEPT !.y = -s0.v.y]]
              ELSE s0
        s2 == IF LowerHit(current_y)
              THEN [t |-> [s1.t EXCEPT !.y = 0],
                    v |-> [s1.v EXCEPT !.y = -s1.v.y]]
              ELSE s1
        s3 == IF UpperHit(current_x, ARENA_WIDTH)
              THEN [t |-> [s2.t EXCEPT !.x = ARENA_WIDTH - 1],
                    v |-> [s2.v EXCEPT !.x = -s2.v.x]]
              ELSE s2
        s4 == IF LowerHit(current_x)
              THEN [t |-> [s3.t EXCEPT !.x = 0],
                    v |-> [s3.v EXCEPT !.x = -s3.v.x]]
              ELSE s3
    IN  s4

\* Variant: rebuild itself clears dirty when it asks for the rebuild.
RebuildClearsDirty(dims, d, new_dimensions) ==
    IF dims # new_dimensions
    THEN [dirty |-> TRUE, dimensions |-> new_dimensions, ret |-> FALSE]
    ELSE [dirty |-> FALSE, dimensions |-> dims, ret |-> d]

\* Variant: no debounce, a change of size asks for the rebuild at once.
RebuildNoDebounce(dims, d, new_dimensions) ==
    IF dims # new_dimensions
    THEN [dirty |-> TRUE, dimensions |-> new_dimensions, ret |-> TRUE]
    ELSE [dirty |-> d, dimensions |-> dims, ret |-> d]

\* Variant: the changed size is not stored.
RebuildKeepsOld(dims, d, new_dimensions) ==
    IF dims # new_dimensions
    THEN [dirty |-> TRUE, dimensions |-> dims, ret |-> FALSE]
    ELSE [dirty |-> d, dimensions |-> dims, ret |-> d]

\* ExampleGraph::rebuild: the new field values and the returned bool.
Rebuild(dims, d, new_dimensions) ==
    IF dims # new_dimensions
    THEN [dirty |-> TRUE, dimensions |-> new_dimensions, ret |-> FALSE]
    ELSE [dirty |-> d, dimensions |-> dims, ret |-> d]

(* ------------------------------ actions ------------------------------- *)

\* State::on_start has run: every ball at the arena centre with a random
\* velocity; ExampleGraph::default(); the first frame is about to dispatch.
Init ==
    /\ transforms = [i \in Bodies |-> [x |-> ARENA_WIDTH \div 2, y |-> ARENA_HEIGHT \div 2]]
    /\ velocities \in [Bodies -> VelocitySamples]
    /\ delta_seconds \in DeltaSamples
    /\ screen \in ScreenSamples
    /\ dimensions = None
    /\ dirty = FALSE
    /\ window_kind = None
    /\ status = [s \in Systems |-> "waiting"]
    /\ cursor = [s \in {"movement_system", "bounce_system"} |-> 1]
    /\ rstep = "rebuild"
    /\ panicked = FALSE
    /\ frame = 1
    /\ start = [transforms |-> transforms, velocities |-> velocities,
                dimensions |-> dimensions, dirty |-> dirty]
    /\ bounceIn = [transforms |-> transforms, velocities |-> velocities]
    /\ corrected = {}
    /\ seen = <<screen>>
    /\ rebuildAt = {}

\* The dispatcher (or the main thread) starts system s.
StartSystem(s) ==
    /\ ~panicked
    /\ status[s] = "waiting"
    /\ CanStart(s)
    /\ status' = [status EXCEPT ![s] = "running"]
    /\ bounceIn' = IF s = "bounce_system"
                   THEN [transforms |-> transforms, velocities |-> velocities]
                   ELSE bounceIn
    /\ UNCHANGED <<transforms, velocities, delta_seconds, screen, dimensions,
                   dirty, window_kind, cursor, rstep, panicked, frame, start,
                   corrected, seen, rebuildAt>>

\* Status of a joining system after it handled body i.
AfterBody(s, i) ==
    IF i = NumBodies THEN [status EXCEPT ![s] = "finished"] ELSE status

\* Variant: MovementSystem also flags the render graph for a rebuild.
MoveStepMarksDirty ==
    /\ ~panicked
    /\ status["movement_system"] = "running"
    /\ LET i == cursor["movement_system"]
       IN  /\ transforms' = [transforms EXCEPT
                               ![i] = IntegrateBody(transforms[i], velocities[i], delta_seconds)]
           /\ cursor' = [cursor EXCEPT !["movement_system"] = i + 1]
           /\ status' = AfterBody("movement_system", i)
    /\ dirty' = TRUE
    /\ UNCHANGED <<velocities, delta_seconds, screen, dimensions, window_kind,
                   rstep, panicked, frame, start, bounceIn, corrected, seen,
                   rebuildAt>>

\* MovementSystem::run: one iteration of the join.
MoveStep ==
    /\ ~panicked
    /\ status["movement_system"] = "running"
    /\ LET i == cursor["movement_system"]
       IN  /\ transforms' = [transforms EXCEPT
                               ![i] = IntegrateBody(transforms[i], velocities[i], delta_seconds)]
           /\ cursor' = [cursor EXCEPT !["movement_system"] = i + 1]
           /\ status' = AfterBody("movement_system", i)
    /\ UNCHANGED <<velocities, delta_seconds, screen, dimensions, dirty,
                   window_kind, rstep, panicked, frame, start, bounceIn,
                   corrected, seen, rebuildAt>>

\* BounceSystem::run: one iteration of the join.
BounceStep ==
    /\ ~panicked
    /\ status["bounce_system"] = "running"
    /\ LET i == cursor["bounce_system"]
           r == BounceBody(transforms[i], velocities[i])
       IN  /\ transforms' = [transforms EXCEPT ![i] = r.t]
           /\ velocities' = [velocities EXCEPT ![i] = r.v]
           /\ cursor' = [cursor EXCEPT !["bounce_system"] = i + 1]
           /\ status' = AfterBody("bounce_system", i)
           /\ corrected' = IF r.t # transforms[i] \/ r.v # velocities[i]
                            THEN corrected \cup {i}
                            ELSE corrected \ {i}
    /\ UNCHANGED <<delta_seconds, screen, dimensions, dirty, window_kind, rstep,
                   panicked, frame, start, bounceIn, seen, rebuildAt>>

\* Processor::<SpriteSheet>::run: touches no state of the model.
ProcessorRun ==
    /\ ~panicked
    /\ status["sprite_sheet_processor"] = "running"
    /\ status' = [status EXCEPT !["sprite_sheet_processor"] = "finished"]
    /\ UNCHANGED <<transforms, velocities, delta_seconds, screen, dimensions,
                   dirty, window_kind, cursor, rstep, panicked, frame, start,
                   bounceIn, corrected, seen, rebuildAt>>

\* RenderingSystem calls ExampleGraph::rebuild; a true result asks for builder.
RenderRebuild ==
    /\ ~panicked
    /\ status["rendering_system"] = "running"
    /\ rstep = "rebuild"
    /\ LET r == Rebuild(dimensions, dirty, screen)
       IN  /\ dirty' = r.dirty
           /\ dimensions' = r.dimensions
           /\ rstep' = IF r.ret THEN "builder" ELSE "draw"
           /\ rebuildAt' = IF r.ret THEN rebuildAt \cup {frame} ELSE rebuildAt
    /\ UNCHANGED <<transforms, velocities, delta_seconds, screen, window_kind,
                   status, cursor, panicked, frame, start, bounceIn, corrected,
                   seen>>

\* Variant: builder without `self.dirty = false`.
RenderBuilderKeepsDirty ==
    /\ ~panicked
    /\ status["rendering_system"] = "running"
    /\ rstep = "builder"
    /\ IF dimensions = None
       THEN /\ panicked' = TRUE
            /\ UNCHANGED <<window_kind, rstep>>
       ELSE /\ window_kind' = dimensions
            /\ rstep' = "draw"
            /\ UNCHANGED panicked
    /\ UNCHANGED <<transforms, velocities, delta_seconds, screen, dimensions,
                   dirty, status, cursor, frame, start, bounceIn, corrected,
                   seen, rebuildAt>>

\* ExampleGraph::builder: clears dirty, then unwraps dimensions for the
\* image kind; unwrap on None panics.
RenderBuilder ==
    /\ ~panicked
    /\ status["rendering_system"] = "running"
    /\ rstep = "builder"
    /\ dirty' = FALSE
    /\ IF dimensions = None
       THEN /\ panicked' = TRUE
            /\ UNCHANGED <<window_kind, rstep>>
       ELSE /\ window_kind' = dimensions
            /\ rstep' = "draw"
            /\ UNCHANGED panicked
    /\ UNCHANGED <<transforms, velocities, delta_seconds, screen, dimensions,
                   status, cursor, frame, start, bounceIn, corrected, seen,
                   rebuildAt>>

\* RenderingSystem runs the graph: the draw pass reads every Transform.
RenderDraw ==
    /\ ~panicked
    /\ status["rendering_system"] = "running"
    /\ rstep = "draw"
    /\ status' = [status EXCEPT !["rendering_system"] = "finished"]
    /\ UNCHANGED <<transforms, velocities, delta_seconds, screen, dimensions,
                   dirty, window_kind, cursor, rstep, panicked, frame, start,
                   bounceIn, corrected, seen, rebuildAt>>

\* game.run(): the frame is over, the next one begins with a fresh delta and
\* whatever the window reports.
NextFrame ==
    /\ ~panicked
    /\ frame < MaxFrames
    /\ \A s \in Systems : status[s] = "finished"
    /\ frame' = frame + 1
    /\ delta_seconds' \in DeltaSamples
    /\ screen' \in ScreenSamples
    /\ seen' = Append(seen, screen')
    /\ status' = [s \in Systems |-> "waiting"]
    /\ cursor' = [s \in {"movement_system", "bounce_system"} |-> 1]
    /\ rstep' = "rebuild"
    /\ start' = [transforms |-> transforms, velocities |-> velocities,
                 dimensions |-> dimensions, dirty |-> dirty]
    /\ bounceIn' = [transforms |-> transforms, velocities |-> velocities]
    /\ UNCHANGED <<transforms, velocities, dimensions, dirty, window_kind,
                   panicked, corrected, rebuildAt>>

Next ==
    \/ \E s \in Systems : StartSystem(s)
    \/ MoveStep
    \/ BounceStep
    \/ ProcessorRun
    \/ RenderRebuild
    \/ RenderBuilder
    \/ RenderDraw
    \/ NextFrame

Spec == Init /\ [][Next]_vars

(* ------------------------- derived predicates ------------------------- *)

\* Body i has been visited by MovementSystem in the current frame.
Integrated(i) == i < cursor["movement_system"]

\* Body i has been visited by BounceSystem in the current frame.
Reflected(i) == i < cursor["bounce_system"]

\* rebuild has returned in the current frame.
RebuildReturned == rstep # "rebuild"

(* ------------------------------- claims ------------------------------- *)

\* C1: in every frame BounceSystem does not start before MovementSystem has
\* finished its pass over every body; the two never run at the same time, and
\* the positions BounceSystem starts from are the integrated ones.
C1_MovementBeforeBounce ==
    status["bounce_system"] # "waiting" =>
        /\ status["movement_system"] = "finished"
        /\ \A i \in Bodies : Integrated(i)
        /\ \A i \in Bodies :
              /\ bounceIn.transforms[i].x =
                    start.transforms[i].x + start.velocities[i].x * delta_seconds
              /\ bounceIn.transforms[i].y =
                    start.transforms[i].y + start.velocities[i].y * delta_seconds

\* C1 witness: BounceSystem is in the middle of its pass after a frame in
\* which the bodies moved.
C1_Witness ==
    /\ status["bounce_system"] = "running"
    /\ cursor["bounce_system"] = 2
    /\ delta_seconds > 0
    /\ status["sprite_sheet_processor"] = "running"

C4_Integration ==
    status["bounce_system"] = "waiting" =>
        /\ \A i \in Bodies :
              IF Integrated(i)
              THEN /\ transforms[i].x =
                         start.transforms[i].x + start.velocities[i].x * delta_seconds
                   /\ transforms[i].y =
                         start.transforms[i].y + start.velocities[i].y * delta_seconds
              ELSE transforms[i] = start.transforms[i]
        /\ velocities = start.velocities
        /\ (delta_seconds = 0 => transforms = start.transforms)

\* C4 witness: MovementSystem has finished a frame with a positive delta and
\* moved a body whose two velocity components differ.
C4_Witness ==
    /\ status["movement_system"] = "finished"
    /\ status["bounce_system"] = "waiting"
    /\ delta_seconds > 0
    /\ \E i \in Bodies :
          /\ velocities[i].x # velocities[i].y
          /\ transforms[i].x # start.transforms[i].x
          /\ transforms[i].y # start.transforms[i].y

\* C5: a body BounceSystem has visited whose position on an axis was >= the
\* arena extent is at extent - 1 on that axis with the velocity negated.
C5_UpperBound ==
    \A i \in Bodies : Reflected(i) =>
        /\ bounceIn.transforms[i].x >= ARENA_WIDTH =>
              /\ transforms[i].x = ARENA_WIDTH - 1
              /\ velocities[i].x = -bounceIn.velocities[i].x
        /\ bounceIn.transforms[i].y >= ARENA_HEIGHT =>
              /\ transforms[i].y = ARENA_HEIGHT - 1
              /\ velocities[i].y = -bounceIn.velocities[i].y

\* C5 witness: a body that was beyond the right wall has been visited.
C5_Witness ==
    \E i \in Bodies :
        /\ Reflected(i)
        /\ bounceIn.transforms[i].x > ARENA_WIDTH
        /\ bounceIn.velocities[i].x > 0
        /\ transforms[i].x = ARENA_WIDTH - 1
        /\ velocities[i].x < 0

\* C6: a body BounceSystem has visited whose position on an axis was <= 0 is
\* at 0 on that axis with the velocity negated.
C6_LowerBound ==
    \A i \in Bodies : Reflected(i) =>
        /\ bounceIn.transforms[i].x <= 0 =>
              /\ transforms[i].x = 0
              /\ velocities[i].x = -bounceIn.velocities[i].x
        /\ bounceIn.transforms[i].y <= 0 =>
              /\ transforms[i].y = 0
              /\ velocities[i].y = -bounceIn.velocities[i].y

\* C6 witness: a body that was beyond the left wall has been visited.
C6_Witness ==
    \E i \in Bodies :
        /\ Reflected(i)
        /\ bounceIn.transforms[i].x < 0
        /\ bounceIn.velocities[i].x < 0
        /\ transforms[i].x = 0
        /\ velocities[i].x > 0

\* C7: a BounceSystem visit to a body that the previous pass corrected and
\* that has not moved since changes neither its position nor its velocity.
C7_IdempotentOnClamp ==
    [][ BounceStep =>
          LET i == cursor["bounce_system"]
          IN  (i \in corrected /\ transforms[i] = start.transforms[i]) =>
                 /\ transforms'[i] = transforms[i]
                 /\ velocities'[i] = velocities[i] ]_vars

\* Result of the two checks of one axis, from that axis alone.
AxisResult(c, v, extent) ==
    IF c >= extent THEN <<extent - 1, -v>>
    ELSE IF c <= 0 THEN <<0, -v>>
    ELSE <<c, v>>

\* The loop body of BounceSystem::run with the x checks before the y checks.
BounceBodyXFirst(t, v) ==
    LET current_x == t.x
        current_y == t.y
        s0 == [t |-> t, v |-> v]
        s1 == IF current_x >= ARENA_WIDTH
              THEN [t |-> [s0.t EXCEPT !.x = ARENA_WIDTH - 1],
                    v |-> [s0.v EXCEPT !.x = -s0.v.x]]
              ELSE s0
        s2 == IF current_x <= 0
              THEN [t |-> [s1.t EXCEPT !.x = 0],
                    v |-> [s1.v EXCEPT !.x = -s1.v.x]]
              ELSE s1
        s3 == IF current_y >= ARENA_HEIGHT
              THEN [t |-> [s2.t EXCEPT !.y = ARENA_HEIGHT - 1],
                    v |-> [s2.v EXCEPT !.y = -s2.v.y]]
              ELSE s2
        s4 == IF current_y <= 0
              THEN [t |-> [s3.t EXCEPT !.y = 0],
                    v |-> [s3.v EXCEPT !.y = -s3.v.y]]
              ELSE s3
    IN  s4

\* C8: for a body BounceSystem has visited, position and velocity on each
\* axis are what that axis's own position and velocity before the visit give,
\* whatever the other axis was, and the checks in the order x, y give the
\* same body.
C8_AxesIndependent ==
    \A i \in Bodies : Reflected(i) =>
        /\ <<transforms[i].x, velocities[i].x>> =
              AxisResult(bounceIn.transforms[i].x, bounceIn.velocities[i].x, ARENA_WIDTH)
        /\ <<transforms[i].y, velocities[i].y>> =
              AxisResult(bounceIn.transforms[i].y, bounceIn.velocities[i].y, ARENA_HEIGHT)
        /\ [t |-> transforms[i], v |-> velocities[i]] =
              BounceBodyXFirst(bounceIn.transforms[i], bounceIn.velocities[i])

\* C8 witness: a body that was beyond the right wall and below the floor has
\* been visited and both axes are corrected.
C8_Witness ==
    \E i \in Bodies :
        /\ Reflected(i)
        /\ bounceIn.transforms[i].x >= ARENA_WIDTH
        /\ bounceIn.transforms[i].y <= 0
        /\ transforms[i] = [x |-> ARENA_WIDTH - 1, y |-> 0]
        /\ velocities[i].x = -bounceIn.velocities[i].x
        /\ velocities[i].y = -bounceIn.velocities[i].y

\* C9: while RenderingSystem runs (and when it reads the transforms to draw)
\* MovementSystem and BounceSystem of the frame have finished and every body
\* has been integrated and reflected.
C9_RenderAfterSimulation ==
    status["rendering_system"] = "running" =>
        /\ status["movement_system"] = "finished"
        /\ status["bounce_system"] = "finished"
        /\ \A i \in Bodies : Integrated(i) /\ Reflected(i)

\* C9 witness: the draw pass is about to read the transforms of a frame in
\* which a body was moved and reflected.
C9_Witness ==
    /\ status["rendering_system"] = "running"
    /\ rstep = "draw"
    /\ delta_seconds > 0
    /\ \E i \in Bodies :
          /\ transforms[i] # start.transforms[i]
          /\ bounceIn.transforms[i] # transforms[i]

(* ------------- MovementSystem and the tracker, interleaved ------------ *)

\* Centre of the arena, where on_start puts every ball.
Centre == [x |-> ARENA_WIDTH \div 2, y |-> ARENA_HEIGHT \div 2]

\* Bodies as a frame can find them: freshly spawned, or resting on a wall
\* after a reflection.
BodyStarts ==
    {[t |-> Centre, v |-> v] : v \in VelocitySamples}
    \cup {[t |-> [x |-> 0, y |-> 0], v |-> [x |-> range, y |-> range]],
          [t |-> [x |-> ARENA_WIDTH - 1, y |-> 0], v |-> [x |-> 1 - range, y |-> range]]}

\* ExampleGraph as a frame can find it: a clean graph was built with the
\* stored dimensions (or never, with none stored); a dirty one has any past.
TrackerStarts ==
    {g \in [dimensions : ScreenSamples, dirty : BOOLEAN, window_kind : ScreenSamples] :
        ~g.dirty => g.window_kind = g.dimensions}

\* A frame in which the dispatcher's MovementSystem and the tracker (rebuild,
\* then builder when asked for) run with no order between them.
InitIndependent ==
    /\ \E b \in [Bodies -> BodyStarts] :
          /\ transforms = [i \in Bodies |-> b[i].t]
          /\ velocities = [i \in Bodies |-> b[i].v]
    /\ \E g \in TrackerStarts :
          /\ dimensions = g.dimensions
          /\ dirty = g.dirty
          /\ window_kind = g.window_kind
    /\ delta_seconds \in DeltaSamples
    /\ screen \in ScreenSamples
    /\ status = [s \in Systems |->
                    IF s \in {"movement_system", "rendering_system"}
                    THEN "running" ELSE "waiting"]
    /\ cursor = [s \in {"movement_system", "bounce_system"} |-> 1]
    /\ rstep = "rebuild"
    /\ panicked = FALSE
    /\ frame = 1
    /\ start = [transforms |-> transforms, velocities |-> velocities,
                dimensions |-> dimensions, dirty |-> dirty]
    /\ bounceIn = [transforms |-> transforms, velocities |-> velocities]
    /\ corrected = {}
    /\ seen = <<screen>>
    /\ rebuildAt = {}

NextIndependent ==
    \/ MoveStep
    \/ RenderRebuild
    \/ RenderBuilder

SpecIndependent == InitIndependent /\ [][NextIndependent]_vars

\* C10: at every point of every interleaving the bodies are what
\* MovementSystem alone has made of them so far and the tracker is what
\* rebuild and builder alone have made of it so far, so when both are done
\* positions, velocities, dimensions, dirty and the rebuild decision are those
\* of the sequential run, whatever the order of the steps.
C10_Independent ==
    /\ \A i \in Bodies :
          IF Integrated(i)
          THEN /\ transforms[i].x =
                     start.transforms[i].x + start.velocities[i].x * delta_seconds
               /\ transforms[i].y =
                     start.transforms[i].y + start.velocities[i].y * delta_seconds
          ELSE transforms[i] = start.transforms[i]
    /\ velocities = start.velocities
    /\ rstep = "rebuild" =>
          dimensions = start.dimensions /\ dirty = start.dirty /\ rebuildAt = {}
    /\ rstep = "builder" =>
          /\ start.dimensions = screen /\ start.dirty
          /\ dimensions = screen
          /\ rebuildAt = {frame}
          /\ dirty = ~panicked
    /\ rstep = "draw" =>
          /\ dimensions = screen
          /\ dirty = (start.dimensions # screen)
          /\ (frame \in rebuildAt) = (start.dimensions = screen /\ start.dirty)
          /\ frame \in rebuildAt => window_kind = screen

\* C10 witness: both are done; the tracker's rebuild and builder ran between
\* the visits of MovementSystem to the first and to the last body.
C10_Witness ==
    /\ status["movement_system"] = "finished"
    /\ rstep = "draw"
    /\ frame \in rebuildAt
    /\ delta_seconds > 0
    /\ window_kind = Some(SizeB)
    /\ start.dirty
    /\ \A i \in Bodies : transforms[i] # start.transforms[i]

\* The observations of frames g..f are all the same.
SameSince(g, f) == \A k \in g..f : seen[k] = seen[g]

\* C11: once the graph was built for a size on frame g, no later frame on
\* which that size is still observed asks for a rebuild again; dirty stays
\* clear and the stored dimensions and the built size stay that size.
C11_OncePerStableSize ==
    \A g \in rebuildAt : \A f \in (g + 1)..frame :
        (SameSince(g, f) /\ ~panicked) =>
            /\ (f < frame \/ RebuildReturned) => f \notin rebuildAt
            /\ f = frame =>
                  /\ ~dirty
                  /\ dimensions = seen[g]
                  /\ window_kind = seen[g]
                  /\ rstep # "builder"

\* C11 witness: B was observed on three frames; frame 2 built the graph and
\* frame 3 has run rebuild without asking for another build.
C11_Witness ==
    /\ frame = 3
    /\ seen = <<Some(SizeB), Some(SizeB), Some(SizeB)>>
    /\ rebuildAt = {2}
    /\ rstep = "draw"
    /\ ~dirty
    /\ window_kind = Some(SizeB)

\* C12: there are always exactly NumBodies bodies, each with a transform and
\* a velocity; before the first MovementSystem pass each is at the arena
\* centre with both velocity components within [-range, range].
C12_Spawn ==
    /\ DOMAIN transforms = 1..NumBodies
    /\ DOMAIN velocities = 1..NumBodies
    /\ (frame = 1 /\ status["movement_system"] = "waiting") =>
          \A i \in Bodies :
              /\ transforms[i].x = ARENA_WIDTH \div 2
              /\ transforms[i].y = ARENA_HEIGHT \div 2
              /\ -range <= velocities[i].x /\ velocities[i].x <= range
              /\ -range <= velocities[i].y /\ velocities[i].y <= range

\* C12 witness: the last frame has been drawn and every body spawned is
\* still there, away from the centre.
C12_Witness ==
    /\ frame > 1
    /\ status["rendering_system"] = "finished"
    /\ Cardinality(DOMAIN transforms) = NumBodies
    /\ \A i \in Bodies : transforms[i].x # ARENA_WIDTH \div 2

Abs(n) == IF n < 0 THEN -n ELSE n

\* C13: no step changes the absolute value of a velocity component, only a
\* BounceSystem visit changes a velocity at all, and a MovementSystem visit
\* leaves every velocity as it was; so each component keeps the absolute
\* value it was spawned with.
C13_VelocitySignOnly ==
    [][ /\ \A i \in Bodies :
              /\ Abs(velocities'[i].x) = Abs(velocities[i].x)
              /\ Abs(velocities'[i].y) = Abs(velocities[i].y)
        /\ velocities' # velocities => BounceStep
        /\ MoveStep => velocities' = velocities ]_vars

\* C13 witness: a BounceSystem visit has negated a velocity component of a
\* body in a frame that moved it.
C13_Witness ==
    \E i \in Bodies :
        /\ Reflected(i)
        /\ delta_seconds > 0
        /\ velocities[i].y = -start.velocities[i].y
        /\ velocities[i].y # 0
        /\ velocities[i].x = start.velocities[i].x

\* C15: once BounceSystem has visited a body, and so whenever RenderingSystem
\* runs and at the end of the frame, the body is inside the arena on both
\* axes: 0 <= x < ARENA_WIDTH and 0 <= y < ARENA_HEIGHT, however far
\* MovementSystem carried it.
C15_Containment ==
    /\ \A i \in Bodies : Reflected(i) =>
          /\ 0 <= transforms[i].x /\ transforms[i].x < ARENA_WIDTH
          /\ 0 <= transforms[i].y /\ transforms[i].y < ARENA_HEIGHT
    /\ status["rendering_system"] # "waiting" =>
          \A i \in Bodies : Reflected(i)

\* C15 witness: the draw pass is about to read a body that MovementSystem had
\* carried more than a third of the arena beyond the right wall and below
\* the floor.
C15_Witness ==
    /\ status["rendering_system"] = "running"
    /\ rstep = "draw"
    /\ \E i \in Bodies :
          /\ 3 * (bounceIn.transforms[i].x - ARENA_WIDTH) > ARENA_WIDTH
          /\ 3 * bounceIn.transforms[i].y < -ARENA_HEIGHT
          /\ transforms[i] = [x |-> ARENA_WIDTH - 1, y |-> 0]

\* C16: after a BounceSystem visit that found a body at or below 0 on an axis
\* the velocity on that axis is >= 0, and after one that found it at or
\* beyond the extent the velocity is <= 0.
C16_ReflectsInward ==
    \A i \in Bodies : Reflected(i) =>
        /\ bounceIn.transforms[i].x <= 0 => velocities[i].x >= 0
        /\ bounceIn.transforms[i].x >= ARENA_WIDTH => velocities[i].x <= 0
        /\ bounceIn.transforms[i].y <= 0 => velocities[i].y >= 0
        /\ bounceIn.transforms[i].y >= ARENA_HEIGHT => velocities[i].y <= 0

\* C17: whenever rebuild has returned true, so that builder is invoked, the
\* stored dimensions are Some.
C17_UnwrapSafe ==
    frame \in rebuildAt => dimensions # None

\* The tracker after a frame that confirmed a pending size: graph built with
\* it, dirty clear.
Stable(size) ==
    /\ ~dirty
    /\ dimensions = size
    /\ window_kind = size

\* A frame that started dirty and observed the stored size again has asked
\* for the rebuild and, once builder is through, is Stable with that size;
\* and the tracker is Stable on every later frame that observes the same size.
Confirmed ==
    /\ (RebuildReturned /\ start.dirty /\ start.dimensions = screen /\ screen # None)
          => /\ frame \in rebuildAt
             /\ rstep = "draw" => Stable(screen)
    /\ \A g \in rebuildAt :
          (g < frame /\ SameSince(g, frame) /\ seen[g] # None) => Stable(seen[g])

\* C18: dirty goes from set to clear only in a builder step, never in rebuild
\* or on a change of size; a rebuild step that finds dirty set and the stored
\* size observed again asks for builder; and a pending rebuild is performed
\* on the frame that confirms the size, after which the tracker stays Stable
\* while the size stays.
C18_PendingNotLost ==
    [][ /\ (dirty /\ ~dirty') => RenderBuilder
        /\ (RenderRebuild /\ dirty /\ dimensions = screen) =>
              (frame \in rebuildAt' /\ rstep' = "builder")
        /\ Confirmed' ]_vars

\* C18 witness: A was stored dirty on frame 1, confirmed and built on frame
\* 2, and frame 3 still observes A with the tracker Stable.
C18_Witness ==
    /\ frame = 3
    /\ seen = <<Some(SizeA), Some(SizeA), Some(SizeA)>>
    /\ rebuildAt = {2}
    /\ status["rendering_system"] = "finished"
    /\ Stable(Some(SizeA))

=============================================================================
